---- MODULE Spec2Model ----
(***************************************************************************)
(* Earth-Green-Pulse dashboard (Dashboard/app.py, Dashboard/app1.py).      *)
(* The script is one straight-line batch run: load cleaned_data.csv,       *)
(* filter it, coerce Year, build the per-entity and per-year mean tables,  *)
(* then construct the chart figures and hand them to the page layout.      *)
(* A DataFrame is modelled as [columns, rows]: a tuple of column names and *)
(* a tuple of rows, each row a tuple of cells aligned with the columns.    *)
(* A cell is <<>> (NaN / missing) or <<x>>; a mean is the exact rational   *)
(* <<numerator, denominator>> in lowest terms (float rounding is not       *)
(* modelled).                                                              *)
(***************************************************************************)
EXTENDS Integers, Sequences, FiniteSets, TLC

VARIABLES csv, data, df, df_mean, df_selected, df_yearly,
          emissions_breakdown, figs, traces, buttons, title, layout,
          pc, error

vars == <<csv, data, df, df_mean, df_selected, df_yearly,
          emissions_breakdown, figs, traces, buttons, title, layout,
          pc, error>>

(* ------------------------------ bounds --------------------------------- *)

\* longest input table (data rows of the CSV file)
MaxRows == 3
\* longest input table tried with a column absent from the header
MaxRowsAbsent == 1

(* ------------------------- names of the program ------------------------ *)

KeyCode == "Alpha 3 Code"
KeyYear == "Year"
Sentinel == "mean"

\* the header of cleaned_data.csv: every column the program reads
FileHeader ==
    << "Alpha 3 Code", "Year",
       "FF (TgCO2)", "FF unc (TgCO2)",
       "LNLG NBE (TgCO2)", "LNLG NBE unc (TgCO2)",
       "IS dC_loss (TgCO2)", "IS dC_loss unc (TgCO2)",
       "Wood+Crop (TgCO2)", "Wood+Crop unc (TgCO2)",
       "Rivers (TgCO2)", "LNLG NCE (TgCO2)" >>

selected_columns ==
    << "Year",
       "FF (TgCO2)", "FF unc (TgCO2)",
       "LNLG NBE (TgCO2)", "LNLG NBE unc (TgCO2)",
       "IS dC_loss (TgCO2)", "IS dC_loss unc (TgCO2)",
       "Wood+Crop (TgCO2)", "Wood+Crop unc (TgCO2)" >>

\* mutant of RenameMap: one key misspelt, so one raw name is not renamed
RenameMap_Typo ==
    [k \in { "FF (TgCO2)", "FF unc(TgCO2)", "LNLG NBE (TgCO2)",
             "LNLG NBE unc (TgCO2)", "IS dC_loss (TgCO2)",
             "IS dC_loss unc (TgCO2)", "Wood+Crop (TgCO2)",
             "Wood+Crop unc (TgCO2)" } |->
        CASE k = "FF (TgCO2)"             -> "Fossil_Fuel_Emissions"
          [] k = "FF unc(TgCO2)"          -> "Fossil_Fuel_Uncertainty"
          [] k = "LNLG NBE (TgCO2)"       -> "Net_Biosphere_Exchange"
          [] k = "LNLG NBE unc (TgCO2)"   -> "Net_Biosphere_Uncertainty"
          [] k = "IS dC_loss (TgCO2)"     -> "Land_Carbon_Loss"
          [] k = "IS dC_loss unc (TgCO2)" -> "Land_Carbon_Uncertainty"
          [] k = "Wood+Crop (TgCO2)"      -> "Wood_Crop_Emissions"
          [] k = "Wood+Crop unc (TgCO2)"  -> "Wood_Crop_Uncertainty"]

\* the columns= argument of df_selected.rename
RenameMap ==
    [k \in { "FF (TgCO2)", "FF unc (TgCO2)", "LNLG NBE (TgCO2)",
             "LNLG NBE unc (TgCO2)", "IS dC_loss (TgCO2)",
             "IS dC_loss unc (TgCO2)", "Wood+Crop (TgCO2)",
             "Wood+Crop unc (TgCO2)" } |->
        CASE k = "FF (TgCO2)"             -> "Fossil_Fuel_Emissions"
          [] k = "FF unc (TgCO2)"         -> "Fossil_Fuel_Uncertainty"
          [] k = "LNLG NBE (TgCO2)"       -> "Net_Biosphere_Exchange"
          [] k = "LNLG NBE unc (TgCO2)"   -> "Net_Biosphere_Uncertainty"
          [] k = "IS dC_loss (TgCO2)"     -> "Land_Carbon_Loss"
          [] k = "IS dC_loss unc (TgCO2)" -> "Land_Carbon_Uncertainty"
          [] k = "Wood+Crop (TgCO2)"      -> "Wood_Crop_Emissions"
          [] k = "Wood+Crop unc (TgCO2)"  -> "Wood_Crop_Uncertainty"]

(* ------------------------------ helpers -------------------------------- *)

Range(s) == {s[i] : i \in 1..Len(s)}

NaN == <<>>

NoFrame == [columns |-> <<>>, rows |-> <<>>]

HasCol(cols, k) == \E i \in 1..Len(cols) : cols[i] = k

\* position of the (first) column named k
ColIndex(cols, k) ==
    CHOOSE i \in 1..Len(cols) :
        cols[i] = k /\ \A j \in 1..(i - 1) : cols[j] # k

\* float('inf') as a year: above every finite year
Infinity == 1000000

\* the Year strings pd.to_numeric parses, with the number each becomes
YearValue ==
    [t \in {"2015", "2016", "inf"} |->
        CASE t = "2015" -> 2015
          [] t = "2016" -> 2016
          [] t = "inf"  -> Infinity]

IsFinite(x) == x < Infinity

RECURSIVE GCD(_, _)
GCD(a, b) == IF b = 0 THEN a ELSE GCD(b, a % b)

\* the rational n/d (d > 0) in lowest terms
Frac(n, d) == LET g == GCD(n, d) IN <<n \div g, d \div g>>

RECURSIVE Sum(_)
Sum(xs) == IF xs = <<>> THEN 0 ELSE Head(xs) + Sum(Tail(xs))

\* mutant of Mean: .sum() in place of .mean()
Mean_Sum(xs) ==
    IF \E i \in 1..Len(xs) : xs[i] = Infinity
    THEN <<Infinity, 1>>
    ELSE <<Sum(xs), 1>>

\* Series.mean() of a non-empty tuple of numbers; inf absorbs
Mean(xs) ==
    IF \E i \in 1..Len(xs) : xs[i] = Infinity
    THEN <<Infinity, 1>>
    ELSE Frac(Sum(xs), Len(xs))

(* --------------------------- DataFrame steps --------------------------- *)

\* mutant of FilterSentinel: the comparison misspells the sentinel
FilterSentinel_WrongLiteral(frame) ==
    LET yi == ColIndex(frame.columns, KeyYear)
    IN  [frame EXCEPT !.rows =
            SelectSeq(frame.rows, LAMBDA r : r[yi] # <<"Mean">>)]

\* data[data['Year'] != 'mean']: keep the rows whose Year cell is not the
\* sentinel string (a NaN Year is not equal to it and is kept)
FilterSentinel(frame) ==
    LET yi == ColIndex(frame.columns, KeyYear)
    IN  [frame EXCEPT !.rows =
            SelectSeq(frame.rows, LAMBDA r : r[yi] # <<Sentinel>>)]

\* mutant of DropNA: dropna(subset=...) over the key and selected columns
\* only, so that a gap in an unselected column does not drop the row
DropNA_Subset(frame) ==
    [frame EXCEPT !.rows =
        SelectSeq(frame.rows,
                  LAMBDA r : \A i \in 1..Len(r) :
                      frame.columns[i] \in Range(selected_columns) \cup {KeyCode}
                          => r[i] # NaN)]

\* df.dropna(): keep the rows with no NaN cell in any column
DropNA(frame) ==
    [frame EXCEPT !.rows =
        SelectSeq(frame.rows, LAMBDA r : \A i \in 1..Len(r) : r[i] # NaN)]

\* pd.to_numeric raises ValueError unless every Year string parses
CanCoerce(frame) ==
    LET yi == ColIndex(frame.columns, KeyYear)
    IN  \A i \in 1..Len(frame.rows) : frame.rows[i][yi][1] \in DOMAIN YearValue

\* df['Year'] = pd.to_numeric(df['Year'])
ToNumeric(frame) ==
    LET yi == ColIndex(frame.columns, KeyYear)
    IN  [frame EXCEPT !.rows =
            [i \in 1..Len(frame.rows) |->
                [frame.rows[i] EXCEPT ![yi] = <<YearValue[frame.rows[i][yi][1]]>>]]]

\* the distinct values of the column named key
KeysOf(frame, key) ==
    {frame.rows[i][ColIndex(frame.columns, key)][1] : i \in 1..Len(frame.rows)}

\* frame.groupby(key).mean().reset_index(): one row per distinct key,
\* keys ascending (ord[k] is the place of key k in the sort order), the
\* key column first, every other column replaced by its mean over the group
GroupByMean(frame, key, ord) ==
    LET cols   == frame.columns
        ki     == ColIndex(cols, key)
        keys   == KeysOf(frame, key)
        sorted == [i \in 1..Cardinality(keys) |->
                     CHOOSE k \in keys :
                        Cardinality({j \in keys : ord[j] < ord[k]}) = i - 1]
        other  == [j \in 1..(Len(cols) - 1) |-> IF j < ki THEN j ELSE j + 1]
        group(k) == SelectSeq(frame.rows, LAMBDA r : r[ki][1] = k)
        column(g, c) == [i \in 1..Len(g) |-> g[i][c][1]]
    IN  [columns |-> <<key>> \o [j \in 1..(Len(cols) - 1) |-> cols[other[j]]],
         rows    |-> [i \in 1..Cardinality(keys) |->
                        << <<sorted[i]>> >> \o
                        [j \in 1..(Len(cols) - 1) |->
                            Mean(column(group(sorted[i]), other[j]))]]]

\* sort order of the entity codes (string comparison)
CodeOrd(c) == CASE c = "AAA" -> 1 [] c = "BBB" -> 2

\* mutant of YearOrd: the years sorted descending
YearOrd_Descending(y) == 0 - y

YearOrd(y) == y

\* df[cols].copy(): the named columns, in the order asked for
Select(frame, cols) ==
    [columns |-> cols,
     rows    |-> [i \in 1..Len(frame.rows) |->
                    [j \in 1..Len(cols) |->
                        frame.rows[i][ColIndex(frame.columns, cols[j])]]]]

\* frame.rename(columns=map): only the column labels change
Rename(frame, map) ==
    [frame EXCEPT !.columns =
        [j \in 1..Len(frame.columns) |->
            IF frame.columns[j] \in DOMAIN map
            THEN map[frame.columns[j]] ELSE frame.columns[j]]]

HasCols(frame, ks) == \A k \in ks : HasCol(frame.columns, k)

(* ------------------------------- inputs -------------------------------- *)

Codes == {"AAA", "BBB"}

\* one line of the file: code, Year string, and the measurement columns
\* (column i holds v + i - 3, so FF holds v and no two columns agree);
\* na names the column whose field is empty, "" for none
MkRow(code, year, v, na) ==
    [i \in 1..Len(FileHeader) |->
        IF FileHeader[i] = na THEN NaN
        ELSE IF FileHeader[i] = KeyCode THEN <<code>>
        ELSE IF FileHeader[i] = KeyYear THEN <<year>>
        ELSE <<v + i - 3>>]

\* year-rows, sentinel rows, rows with one empty field, rows whose Year
\* is no year
InputRows ==
         {MkRow(c, y, v, "") : c \in Codes, y \in {"2015", "2016"}, v \in {10, 20}}
    \cup {MkRow(c, Sentinel, 70, "") : c \in Codes}
    \cup {MkRow("BBB", "2015", 40, na) :
             na \in {"Year", "FF (TgCO2)", "Rivers (TgCO2)"}}
    \cup {MkRow("AAA", y, 50, "") : y \in {"abc", "inf"}}

Tables(n) == UNION {[1..m -> InputRows] : m \in 0..n}

\* a tuple without its i-th element
Without(s, i) == [j \in 1..(Len(s) - 1) |-> IF j < i THEN s[j] ELSE s[j + 1]]

\* the file the run finds, with its columns in header order
File(header, rows) == [exists |-> TRUE, header |-> header, rows |-> rows]

NoFile == [exists |-> FALSE, header |-> <<>>, rows |-> <<>>]

(* ------------------------------- the run ------------------------------- *)

\* the file is absent, complete, or lacks one column of the header
Init ==
    /\ \/ csv = NoFile
       \/ \E rs \in Tables(MaxRows) : csv = File(FileHeader, rs)
       \/ \E i \in 1..Len(FileHeader), rs \in Tables(MaxRowsAbsent) :
             csv = File(Without(FileHeader, i),
                        [j \in 1..Len(rs) |-> Without(rs[j], i)])
    /\ data = NoFrame
    /\ df = NoFrame
    /\ df_mean = NoFrame
    /\ df_selected = NoFrame
    /\ df_yearly = NoFrame
    /\ emissions_breakdown = NoFrame
    /\ figs = {}
    /\ traces = <<>>
    /\ buttons = <<>>
    /\ title = <<>>
    /\ layout = <<>>
    /\ pc = "read_csv"
    /\ error = "none"

\* an uncaught exception ends the script
Raise(e) == pc' = "failed" /\ error' = e

Goto(l) == pc' = l /\ error' = error

\* line 9: data = pd.read_csv('cleaned_data.csv')
ReadCsv ==
    /\ pc = "read_csv"
    /\ IF csv.exists
       THEN data' = [columns |-> csv.header, rows |-> csv.rows]
            /\ Goto("filter")
       ELSE data' = data /\ Raise("FileNotFoundError")
    /\ UNCHANGED <<csv, df, df_mean, df_selected, df_yearly,
                   emissions_breakdown, figs, traces, buttons, title, layout>>

\* line 10: df = data[data['Year'] != 'mean']
Filter ==
    /\ pc = "filter"
    /\ IF HasCol(data.columns, KeyYear)
       THEN df' = FilterSentinel(data) /\ Goto("dropna")
       ELSE df' = df /\ Raise("KeyError")
    /\ UNCHANGED <<csv, data, df_mean, df_selected, df_yearly,
                   emissions_breakdown, figs, traces, buttons, title, layout>>

\* line 11: df = df.dropna()
DropNa ==
    /\ pc = "dropna"
    /\ df' = DropNA(df)
    /\ Goto("to_numeric")
    /\ UNCHANGED <<csv, data, df_mean, df_selected, df_yearly,
                   emissions_breakdown, figs, traces, buttons, title, layout>>

\* line 12: df['Year'] = pd.to_numeric(df['Year'])
CoerceYear ==
    /\ pc = "to_numeric"
    /\ IF CanCoerce(df)
       THEN df' = ToNumeric(df) /\ Goto("df_mean")
       ELSE df' = df /\ Raise("ValueError")
    /\ UNCHANGED <<csv, data, df_mean, df_selected, df_yearly,
                   emissions_breakdown, figs, traces, buttons, title, layout>>

\* mutant of EntityMeans: the rows are not grouped, each row becomes an
\* output row of its own
EntityMeans_NoGrouping(frame) ==
    LET cols  == frame.columns
        ki    == ColIndex(cols, KeyCode)
        other == [j \in 1..(Len(cols) - 1) |-> IF j < ki THEN j ELSE j + 1]
    IN  [columns |-> <<KeyCode>> \o [j \in 1..(Len(cols) - 1) |-> cols[other[j]]],
         rows    |-> [i \in 1..Len(frame.rows) |->
                        <<frame.rows[i][ki]>> \o
                        [j \in 1..(Len(cols) - 1) |->
                            <<frame.rows[i][other[j]][1], 1>>]]]

\* df.groupby('Alpha 3 Code').mean().reset_index()
EntityMeans(frame) ==
    GroupByMean(frame, KeyCode, [c \in KeysOf(frame, KeyCode) |-> CodeOrd(c)])

\* line 13: df_mean = df.groupby('Alpha 3 Code').mean().reset_index()
DfMean ==
    /\ pc = "df_mean"
    /\ IF HasCol(df.columns, KeyCode)
       THEN df_mean' = EntityMeans(df) /\ Goto("df_selected")
       ELSE df_mean' = df_mean /\ Raise("KeyError")
    /\ UNCHANGED <<csv, data, df, df_selected, df_yearly,
                   emissions_breakdown, figs, traces, buttons, title, layout>>

\* mutant of DfSelected: the per-year table is cut from the per-entity
\* means instead of the filtered rows
DfSelected_FromEntityMeans ==
    /\ pc = "df_selected"
    /\ IF HasCols(df_mean, Range(selected_columns))
       THEN df_selected' = Select(df_mean, selected_columns) /\ Goto("rename")
       ELSE df_selected' = df_selected /\ Raise("KeyError")
    /\ UNCHANGED <<csv, data, df, df_mean, df_yearly,
                   emissions_breakdown, figs, traces, buttons, title, layout>>

\* line 23: df_selected = df[selected_columns].copy()
DfSelected ==
    /\ pc = "df_selected"
    /\ IF HasCols(df, Range(selected_columns))
       THEN df_selected' = Select(df, selected_columns) /\ Goto("rename")
       ELSE df_selected' = df_selected /\ Raise("KeyError")
    /\ UNCHANGED <<csv, data, df, df_mean, df_yearly,
                   emissions_breakdown, figs, traces, buttons, title, layout>>

\* lines 24-33: df_selected.rename(columns={...}, inplace=True)
DfRename ==
    /\ pc = "rename"
    /\ df_selected' = Rename(df_selected, RenameMap)
    /\ Goto("df_yearly")
    /\ UNCHANGED <<csv, data, df, df_mean, df_yearly,
                   emissions_breakdown, figs, traces, buttons, title, layout>>

\* df_selected.groupby('Year').mean().reset_index()
YearMeans(frame) ==
    GroupByMean(frame, KeyYear, [y \in KeysOf(frame, KeyYear) |-> YearOrd(y)])

\* line 36: df_yearly = df_selected.groupby('Year').mean().reset_index()
DfYearly ==
    /\ pc = "df_yearly"
    /\ df_yearly' = YearMeans(df_selected)
    /\ Goto("fig_choropleth")
    /\ UNCHANGED <<csv, data, df, df_mean, df_selected,
                   emissions_breakdown, figs, traces, buttons, title, layout>>

(* ------------------------------ the charts ----------------------------- *)

\* a figure built from the columns ks of frame: the chart constructor (or
\* the column lookup feeding it) raises when a column is not in the frame
Construct(at, fig, frame, ks, next) ==
    /\ pc = at
    /\ IF HasCols(frame, ks)
       THEN figs' = figs \cup {fig} /\ Goto(next)
       ELSE figs' = figs /\ Raise("KeyError")
    /\ UNCHANGED <<csv, data, df, df_mean, df_selected, df_yearly,
                   emissions_breakdown, traces, buttons, title, layout>>

\* lines 39-51: fig_choropleth = px.choropleth(df_mean, ...)
FigChoropleth ==
    Construct("fig_choropleth", "fig_choropleth", df_mean,
              {"Alpha 3 Code", "FF (TgCO2)"}, "fig_top_emitters")

\* lines 54-64: top_emitters and fig_top_emitters = px.bar(top_emitters, ...)
FigTopEmitters ==
    Construct("fig_top_emitters", "fig_top_emitters", df_mean,
              {"Alpha 3 Code", "FF (TgCO2)"}, "fig_scatter_trend")

\* lines 67-82: fig_scatter_trend = px.scatter(df_mean, ...)
FigScatterTrend ==
    Construct("fig_scatter_trend", "fig_scatter_trend", df_mean,
              {"Alpha 3 Code", "FF (TgCO2)", "LNLG NBE (TgCO2)",
               "IS dC_loss (TgCO2)"}, "emissions_breakdown")

breakdown_columns ==
    <<"Alpha 3 Code", "FF (TgCO2)", "Rivers (TgCO2)", "Wood+Crop (TgCO2)">>

\* lines 85-88: emissions_breakdown = df_mean[[...]] (and its melt)
EmissionsBreakdown ==
    /\ pc = "emissions_breakdown"
    /\ IF HasCols(df_mean, Range(breakdown_columns))
       THEN emissions_breakdown' = Select(df_mean, breakdown_columns)
            /\ Goto("fig_stacked_bar")
       ELSE emissions_breakdown' = emissions_breakdown /\ Raise("KeyError")
    /\ UNCHANGED <<csv, data, df, df_mean, df_selected, df_yearly,
                   figs, traces, buttons, title, layout>>

\* lines 89-99: fig_stacked_bar = px.bar(emissions_melted, ...)
FigStackedBar ==
    Construct("fig_stacked_bar", "fig_stacked_bar", emissions_breakdown,
              Range(breakdown_columns), "fig_heatmap_uncertainty")

\* lines 102-114: fig_heatmap_uncertainty = px.choropleth(df_mean, ...)
FigHeatmapUncertainty ==
    Construct("fig_heatmap_uncertainty", "fig_heatmap_uncertainty", df_mean,
              {"Alpha 3 Code", "FF unc (TgCO2)"}, "fig_choropleth_buttons")

\* lines 117-122: emission_types, in insertion order
emission_types ==
    << <<"Fossil Fuel Emissions", "FF (TgCO2)">>,
       <<"Net Biosphere Exchange", "LNLG NBE (TgCO2)">>,
       <<"Net Carbon Exchange", "LNLG NCE (TgCO2)">>,
       <<"Land Carbon Stock Loss", "IS dC_loss (TgCO2)">> >>

\* the title f'{name} by Country (2015-2020)'
TitleOf(name) == <<name, " by Country (2015-2020)">>

\* line 123: fig_choropleth_buttons = go.Figure()
FigChoroplethButtons ==
    Construct("fig_choropleth_buttons", "fig_choropleth_buttons", df_mean,
              {}, "add_trace")

\* lines 124-136: one pass of the loop adding a Choropleth trace
AddTrace ==
    /\ pc = "add_trace"
    /\ LET i == Len(traces) + 1
           name == emission_types[i][1]
           column == emission_types[i][2]
       IN  IF HasCols(df_mean, {"Alpha 3 Code", column})
           THEN /\ traces' = Append(traces,
                        [name |-> name, z |-> column,
                         visible |-> (name = "Fossil Fuel Emissions")])
                /\ Goto(IF i = Len(emission_types) THEN "buttons" ELSE "add_trace")
           ELSE traces' = traces /\ Raise("KeyError")
    /\ UNCHANGED <<csv, data, df, df_mean, df_selected, df_yearly,
                   emissions_breakdown, figs, buttons, title, layout>>

\* mutant of Buttons: the visibility list is made once, before the loop,
\* so every button carries the same list with every entry set
Buttons_SharedVisibility ==
    /\ pc = "buttons"
    /\ buttons' =
          [i \in 1..Len(emission_types) |->
              [label   |-> emission_types[i][1],
               visible |-> [j \in 1..Len(emission_types) |-> TRUE],
               title   |-> TitleOf(emission_types[i][1])]]
    /\ title' = <<"Fossil Fuel Emissions", " by Country (2015-2020)">>
    /\ Goto("fig_annual_trends")
    /\ UNCHANGED <<csv, data, df, df_mean, df_selected, df_yearly,
                   emissions_breakdown, figs, traces, layout>>

\* lines 137-164: the buttons and fig_choropleth_buttons.update_layout
Buttons ==
    /\ pc = "buttons"
    /\ buttons' =
          [i \in 1..Len(emission_types) |->
              [label   |-> emission_types[i][1],
               visible |-> [j \in 1..Len(emission_types) |-> j = i],
               title   |-> TitleOf(emission_types[i][1])]]
    /\ title' = <<"Fossil Fuel Emissions", " by Country (2015-2020)">>
    /\ Goto("fig_annual_trends")
    /\ UNCHANGED <<csv, data, df, df_mean, df_selected, df_yearly,
                   emissions_breakdown, figs, traces, layout>>

\* lines 167-195: fig_annual_trends, three Scatter traces over df_yearly
FigAnnualTrends ==
    Construct("fig_annual_trends", "fig_annual_trends", df_yearly,
              {"Year", "Fossil_Fuel_Emissions", "Net_Biosphere_Exchange",
               "Wood_Crop_Emissions"}, "fig_subplots")

\* lines 198-240: fig_subplots, a Bar with error bars and two Scatter traces
FigSubplots ==
    Construct("fig_subplots", "fig_subplots", df_yearly,
              {"Year", "Fossil_Fuel_Emissions", "Fossil_Fuel_Uncertainty",
               "Net_Biosphere_Exchange", "Wood_Crop_Emissions"}, "layout")

\* lines 243-313: app.layout hands the eight figures to dcc.Graph
Layout ==
    /\ pc = "layout"
    /\ layout' = <<"fig_choropleth", "fig_top_emitters", "fig_scatter_trend",
                   "fig_stacked_bar", "fig_heatmap_uncertainty",
                   "fig_choropleth_buttons", "fig_annual_trends",
                   "fig_subplots">>
    /\ Goto("serving")
    /\ UNCHANGED <<csv, data, df, df_mean, df_selected, df_yearly,
                   emissions_breakdown, figs, traces, buttons, title>>

\* lines 141-144: a click on button i of the shown figure; method 'update'
\* gives args[0]['visible'][j] to trace j and args[1]['title'] to the layout
Press(i) ==
    /\ pc = "serving"
    /\ traces' = [j \in 1..Len(traces) |->
                    [traces[j] EXCEPT !.visible = buttons[i].visible[j]]]
    /\ title' = buttons[i].title
    /\ UNCHANGED <<csv, data, df, df_mean, df_selected, df_yearly,
                   emissions_breakdown, figs, buttons, layout, pc, error>>

Next ==
    \/ ReadCsv
    \/ Filter
    \/ DropNa
    \/ CoerceYear
    \/ DfMean
    \/ DfSelected
    \/ DfRename
    \/ DfYearly
    \/ FigChoropleth
    \/ FigTopEmitters
    \/ FigScatterTrend
    \/ EmissionsBreakdown
    \/ FigStackedBar
    \/ FigHeatmapUncertainty
    \/ FigChoroplethButtons
    \/ AddTrace
    \/ Buttons
    \/ FigAnnualTrends
    \/ FigSubplots
    \/ Layout
    \/ \E i \in 1..Len(buttons) : Press(i)

Spec == Init /\ [][Next]_vars

(* ---------------------- what the claims talk about --------------------- *)

DataYear == ColIndex(data.columns, KeyYear)
DataCode == ColIndex(data.columns, KeyCode)

IsSentinelRow(r) == r[DataYear] = <<Sentinel>>
HasMissing(r) == \E j \in 1..Len(r) : r[j] = NaN

\* the input rows (by position in data) that are neither sentinel rows nor
\* rows with a missing field
Surviving ==
    {i \in 1..Len(data.rows) :
        ~IsSentinelRow(data.rows[i]) /\ ~HasMissing(data.rows[i])}

SurvivingOf(c) == {i \in Surviving : data.rows[i][DataCode] = <<c>>}
SurvivingIn(y) == {i \in Surviving : YearValue[data.rows[i][DataYear][1]] = y}

\* the number input row i holds in column k (its Year as a number)
Raw(i, k) ==
    IF k = KeyYear THEN YearValue[data.rows[i][DataYear][1]]
    ELSE data.rows[i][ColIndex(data.columns, k)][1]

RECURSIVE Total(_, _)
Total(S, k) ==
    IF S = {} THEN 0
    ELSE LET i == CHOOSE i \in S : TRUE IN Raw(i, k) + Total(S \ {i}, k)

\* cell m is the arithmetic mean of column k over the input rows S
IsMeanOf(m, S, k) ==
    IF \E i \in S : Raw(i, k) = Infinity
    THEN m = <<Infinity, 1>>
    ELSE /\ Len(m) = 2
         /\ m[2] > 0
         /\ m[1] * Cardinality(S) = m[2] * Total(S, k)

\* df holds the filtered rows, Year still as read / Year coerced
Filtered == pc = "to_numeric" \/ error = "ValueError"
Coerced  == df # NoFrame /\ pc \notin {"dropna", "to_numeric"} /\ error # "ValueError"

\* df_mean, df_selected and df_yearly are each assigned once (lines 13,
\* 23-33, 36) and never written again: the claims examine each in the state
\* right after its assignment
HaveDfMean     == pc = "df_selected"
HaveDfSelected == pc = "df_yearly"
HaveDfYearly   == pc = "fig_choropleth"

(* -------------------------------- claims ------------------------------- *)

\* C1: no sentinel row (Year = 'mean') reaches either aggregate: after line
\* 10 df holds no sentinel row, every group key of df_mean is the code of
\* a non-sentinel input row, every group key of df_yearly is the year of a
\* non-sentinel input row, and both aggregates are what the pipeline gives
\* on the input with its sentinel rows deleted beforehand.
C1_SentinelExcluded ==
    /\ (pc = "dropna" \/ Filtered) =>
          \A i \in 1..Len(df.rows) :
             df.rows[i][ColIndex(df.columns, KeyYear)] # <<Sentinel>>
    /\ HaveDfMean =>
          /\ \A i \in 1..Len(df_mean.rows) :
                \E j \in 1..Len(data.rows) :
                   /\ ~IsSentinelRow(data.rows[j])
                   /\ data.rows[j][DataCode] = df_mean.rows[i][1]
          /\ LET scrubbed == [data EXCEPT !.rows =
                                SelectSeq(data.rows, LAMBDA r : ~IsSentinelRow(r))]
             IN  df_mean = EntityMeans(ToNumeric(DropNA(scrubbed)))
    /\ HaveDfYearly =>
          /\ \A i \in 1..Len(df_yearly.rows) :
                \E j \in 1..Len(data.rows) :
                   /\ ~IsSentinelRow(data.rows[j])
                   /\ ~HasMissing(data.rows[j])
                   /\ <<YearValue[data.rows[j][DataYear][1]]>> = df_yearly.rows[i][1]
          /\ LET scrubbed == [data EXCEPT !.rows =
                                SelectSeq(data.rows, LAMBDA r : ~IsSentinelRow(r))]
             IN  df_yearly =
                    YearMeans(Rename(Select(ToNumeric(DropNA(scrubbed)),
                                            selected_columns), RenameMap))

\* C1 witness: the input has a sentinel row and both aggregates were built
\* with at least one row each
C1_Witness ==
    /\ HaveDfYearly
    /\ \E j \in 1..Len(data.rows) : IsSentinelRow(data.rows[j])
    /\ Len(df_mean.rows) > 0
    /\ Len(df_yearly.rows) > 0

\* C2: for every entity code with a surviving row and every numeric column
\* (Year and the measurement columns), df_mean holds the arithmetic mean of
\* that column over exactly that entity's surviving rows; an entity with
\* one surviving row keeps that row's own values.
C2_EntityMean ==
    HaveDfMean =>
       \A i \in Surviving :
          LET c == data.rows[i][DataCode][1]
          IN  \E r \in 1..Len(df_mean.rows) :
                 /\ df_mean.rows[r][1] = <<c>>
                 /\ \A j \in 2..Len(df_mean.columns) :
                       LET k == df_mean.columns[j]
                       IN  /\ IsMeanOf(df_mean.rows[r][j], SurvivingOf(c), k)
                           /\ SurvivingOf(c) = {i} =>
                                 df_mean.rows[r][j] = <<Raw(i, k), 1>>

\* C2 witness: an entity with two surviving rows of different FF values,
\* another with a single surviving row
C2_Witness ==
    /\ HaveDfMean
    /\ data.columns = FileHeader
    /\ \E i, j \in SurvivingOf("AAA") : Raw(i, "FF (TgCO2)") # Raw(j, "FF (TgCO2)")
    /\ Cardinality(SurvivingOf("BBB")) = 1

\* the raw measurement/uncertainty columns with the names the per-year
\* table is to carry
NamePairs ==
    { <<"FF (TgCO2)", "Fossil_Fuel_Emissions">>,
      <<"FF unc (TgCO2)", "Fossil_Fuel_Uncertainty">>,
      <<"LNLG NBE (TgCO2)", "Net_Biosphere_Exchange">>,
      <<"LNLG NBE unc (TgCO2)", "Net_Biosphere_Uncertainty">>,
      <<"IS dC_loss (TgCO2)", "Land_Carbon_Loss">>,
      <<"IS dC_loss unc (TgCO2)", "Land_Carbon_Uncertainty">>,
      <<"Wood+Crop (TgCO2)", "Wood_Crop_Emissions">>,
      <<"Wood+Crop unc (TgCO2)", "Wood_Crop_Uncertainty">> }

\* C3: for every year with a surviving row and every renamed column,
\* df_yearly holds the arithmetic mean of the raw column over all surviving
\* input rows of that year, whatever their entity.
C3_YearMean ==
    HaveDfYearly =>
       \A i \in Surviving :
          LET y == Raw(i, KeyYear)
          IN  \E r \in 1..Len(df_yearly.rows) :
                 /\ df_yearly.rows[r][1] = <<y>>
                 /\ \A p \in NamePairs :
                       /\ HasCol(df_yearly.columns, p[2])
                       /\ IsMeanOf(df_yearly.rows[r][ColIndex(df_yearly.columns, p[2])],
                                   SurvivingIn(y), p[1])

\* C3 witness: one year with surviving rows of two entities holding
\* different FF values, one of the entities having a second year as well
C3_Witness ==
    /\ HaveDfYearly
    /\ \E i, j \in SurvivingIn(2015) :
          /\ data.rows[i][DataCode] # data.rows[j][DataCode]
          /\ Raw(i, "FF (TgCO2)") # Raw(j, "FF (TgCO2)")
          /\ \E k \in SurvivingIn(2016) : data.rows[k][DataCode] = data.rows[i][DataCode]

\* C4: after lines 10-11 df is exactly the input rows that are no sentinel
\* row and have no missing field in any column, in input order; filtering df
\* again changes nothing; and both aggregations read only those rows.
C4_MissingExcluded ==
    /\ Filtered =>
          /\ \A i \in 1..Len(df.rows) : \A j \in 1..Len(df.columns) : df.rows[i][j] # NaN
          /\ df.rows = SelectSeq(data.rows,
                                 LAMBDA r : ~IsSentinelRow(r) /\ ~HasMissing(r))
          /\ DropNA(FilterSentinel(df)) = df
    /\ HaveDfMean =>
          /\ Len(df.rows) = Cardinality(Surviving)
          /\ \A i \in 1..Len(df.rows) : \A j \in 1..Len(df.columns) : df.rows[i][j] # NaN
    /\ HaveDfSelected =>
          /\ Len(df_selected.rows) = Cardinality(Surviving)
          /\ \A i \in 1..Len(df_selected.rows) :
                \A j \in 1..Len(df_selected.columns) : df_selected.rows[i][j] # NaN

\* C4 witness: a row missing only the river flux, which no aggregate of the
\* per-year table uses, was dropped and another row was kept
C4_Witness ==
    /\ pc = "to_numeric"
    /\ data.columns = FileHeader
    /\ Len(df.rows) > 0
    /\ \E i \in 1..Len(data.rows) :
          /\ data.rows[i][ColIndex(data.columns, "Rivers (TgCO2)")] = NaN
          /\ \A j \in 1..Len(data.columns) :
                data.columns[j] # "Rivers (TgCO2)" => data.rows[i][j] # NaN

\* the entity codes with at least one surviving row
SurvivingCodes == {data.rows[i][DataCode][1] : i \in Surviving}

\* C5: df_mean has exactly one row per distinct entity code among the
\* surviving rows, and no row for an entity whose rows were all removed.
C5_OneRowPerEntity ==
    HaveDfMean =>
       /\ Len(df_mean.rows) = Cardinality(SurvivingCodes)
       /\ {df_mean.rows[r][1][1] : r \in 1..Len(df_mean.rows)} = SurvivingCodes
       /\ \A i \in 1..Len(data.rows) :
             data.rows[i][DataCode] # NaN /\ SurvivingOf(data.rows[i][DataCode][1]) = {} =>
                \A r \in 1..Len(df_mean.rows) : df_mean.rows[r][1] # data.rows[i][DataCode]

\* C5 witness: one entity has only a sentinel row, the other has two
\* surviving rows
C5_Witness ==
    /\ HaveDfMean
    /\ \E i \in 1..Len(data.rows) :
          /\ IsSentinelRow(data.rows[i])
          /\ SurvivingOf(data.rows[i][DataCode][1]) = {}
    /\ \E c \in SurvivingCodes : Cardinality(SurvivingOf(c)) = 2

\* the years with at least one surviving row
SurvivingYears == {Raw(i, KeyYear) : i \in Surviving}

\* C6: df_yearly has exactly one row per distinct year among the surviving
\* rows, in ascending year order, and no row for any other year.
C6_OneRowPerYear ==
    HaveDfYearly =>
       /\ Len(df_yearly.rows) = Cardinality(SurvivingYears)
       /\ {df_yearly.rows[r][1][1] : r \in 1..Len(df_yearly.rows)} = SurvivingYears
       /\ \A r \in 1..(Len(df_yearly.rows) - 1) :
             df_yearly.rows[r][1][1] < df_yearly.rows[r + 1][1][1]
       /\ \A y \in {2015, 2016} :
             SurvivingIn(y) = {} =>
                \A r \in 1..Len(df_yearly.rows) : df_yearly.rows[r][1] # <<y>>

\* C6 witness: the input gives 2016 before 2015, and a row of the year
\* 2015 is the only one dropped
C6_Witness ==
    /\ HaveDfYearly
    /\ Len(df_yearly.rows) = 2
    /\ Len(data.rows) > 1
    /\ data.rows[1][DataYear] = <<"2016">>
    /\ data.rows[2][DataYear] = <<"2015">>
    /\ {1, 2} \subseteq Surviving

\* C7: the renaming maps every selected column but Year to exactly one new
\* name, no two to the same name, and the table given to the per-year
\* aggregation has exactly Year and the 8 new names as its columns: no raw
\* name and no unselected column.
C7_RenameBijection ==
    /\ DOMAIN RenameMap = Range(selected_columns) \ {KeyYear}
    /\ DOMAIN RenameMap = {p[1] : p \in NamePairs}
    /\ \A a, b \in DOMAIN RenameMap : RenameMap[a] = RenameMap[b] => a = b
    /\ HaveDfSelected =>
          /\ Len(df_selected.columns) = Cardinality(NamePairs) + 1
          /\ Range(df_selected.columns) = {KeyYear} \cup {p[2] : p \in NamePairs}
          /\ \A j \in 1..Len(df_selected.columns) :
                df_selected.columns[j] # KeyYear =>
                   ~HasCol(data.columns, df_selected.columns[j])
          /\ \A i \in 1..Len(df_selected.rows) :
                Len(df_selected.rows[i]) = Len(df_selected.columns)
          /\ \A p \in NamePairs, i \in 1..Len(df_selected.rows) :
                df_selected.rows[i][ColIndex(df_selected.columns, p[2])] =
                   df.rows[i][ColIndex(df.columns, p[1])]

\* C7 witness: the renamed table is ready for the per-year aggregation and
\* holds rows
C7_Witness ==
    /\ HaveDfSelected
    /\ Len(df_selected.rows) > 1

\* the Year string of input row i is one pd.to_numeric parses
YearParses(i) == data.rows[i][DataYear][1] \in DOMAIN YearValue

\* C8: the run fails at the Year coercion exactly when a surviving row has
\* a Year that is no number, and otherwise every surviving row's Year is a
\* finite number.
C8_CoercionFinite ==
    /\ error = "ValueError" => \E i \in Surviving : ~YearParses(i)
    /\ (/\ HasCol(data.columns, KeyYear)
        /\ pc \notin {"read_csv", "filter", "dropna", "to_numeric"}
        /\ \E i \in Surviving : ~YearParses(i))
          => error = "ValueError"
    /\ Coerced =>
          \A i \in 1..Len(df.rows) :
             IsFinite(df.rows[i][ColIndex(df.columns, KeyYear)][1])

\* C9: when no row survives the filter the run stops with an error: no
\* aggregate table is computed and no chart is built.
C9_EmptyResultError ==
    (/\ HasCol(data.columns, KeyYear)
     /\ Surviving = {}
     /\ pc \notin {"read_csv", "filter", "dropna", "to_numeric"})
       => /\ pc = "failed"
          /\ df_mean = NoFrame
          /\ df_yearly = NoFrame
          /\ figs = {}

\* C10: when the file or a column the program reads is absent, no figure
\* has been constructed, no trace added and nothing handed to the page at
\* the point the error is raised.
C10_FatalBeforeCharts ==
    error \in {"FileNotFoundError", "KeyError"} =>
       /\ figs = {}
       /\ traces = <<>>
       /\ layout = <<>>

\* the traces of fig_choropleth_buttons that are shown
Visible == {j \in 1..Len(traces) : traces[j].visible}

\* C11: in the finished emission-type choropleth, before and after any
\* presses, exactly one of the four traces is visible; button i carries a
\* visibility list true at i only and the emission-type name of trace i;
\* the title names the emission type of the visible trace, which before
\* any press is 'Fossil Fuel Emissions'.
C11_OneTraceVisible ==
    buttons # <<>> =>
       /\ Len(traces) = Len(emission_types)
       /\ Len(buttons) = Len(traces)
       /\ Cardinality(Visible) = 1
       /\ \A i \in 1..Len(buttons) :
             /\ \A j \in 1..Len(traces) : buttons[i].visible[j] = (j = i)
             /\ buttons[i].label = traces[i].name
             /\ buttons[i].title[1] = traces[i].name
       /\ \A j \in Visible :
             title = <<traces[j].name, " by Country (2015-2020)">>
       /\ pc # "serving" =>
             /\ Visible = {1}
             /\ title[1] = "Fossil Fuel Emissions"

\* C11 witness: after presses the third trace is the one shown, under its
\* own title, and the first is hidden
C11_Witness ==
    /\ pc = "serving"
    /\ traces[3].visible
    /\ ~traces[1].visible
    /\ title[1] = "Net Carbon Exchange"

====
